---------------------------- MODULE Spec2Model ----------------------------
(***************************************************************************)
(* Model of IQResamplerCPP (src/iq_resampler_cpp.cpp, iq_resampler_cpp.h): *)
(* the constructor, process and reset of the streaming I/Q resampler.      *)
(*                                                                         *)
(* Arithmetic.  The C++ code computes source positions and interpolated    *)
(* values in float.  The model computes them as exact rationals: a         *)
(* position is carried as its numerator over RatioDen (the float of        *)
(* |outputRate_|), and an output value as its numerator over RatioDen.     *)
(* Sample values are                                                       *)
(* small integers.  The conversion of an int rate to float rounds to the   *)
(* 24-bit significand, as ToFloat does; the float operations that follow   *)
(* are exact here.  int arithmetic (gcd, the output count) is modelled     *)
(* with C++ truncating division.  Sequences are 1-based here, 0-based in   *)
(* the code: element k of a vector is element k+1 of the sequence.         *)
(***************************************************************************)
EXTENDS Integers, Sequences, FiniteSets, TLC

\* ------------------------------------------------------------------ bounds
MaxRate == 2          \* sample rates 1..MaxRate (Spec)
MaxStreamRate == 3    \* sample rates 1..MaxStreamRate (SpecStream)
MaxTaps == 2          \* filterTaps 1..MaxTaps (Spec, SpecCtor)
MaxPairs == 2         \* a block of Spec and SpecCtor holds at most MaxPairs I/Q pairs
MaxCalls == 3         \* process calls on one continuous stream
MaxStreamTaps == 5    \* filterTaps 1..MaxStreamTaps (SpecStream)
MaxStreamPairs == 4   \* a stream block holds at most MaxStreamPairs pairs (SpecStream)
MaxCtorRate == 6      \* constructor arguments -MaxCtorRate..MaxCtorRate (SpecCtor)
MaxIPPRate == 2       \* sample rates 1..MaxIPPRate (SpecIPP)
MaxIPPLen == 2        \* filterLen 1..MaxIPPLen (SpecIPP)
MaxVendorCalls == 4   \* invocations of the vendor resampling primitive (SpecIPP)
MaxTwinPairs == 6     \* the longest block given to two instances alike (SpecTwin)
MaxScale == 3         \* rates multiplied by 2..MaxScale (SpecTwin)
IntBits == 8          \* the bits of an int as SpecInt evaluates it (32 in the program)

Samples == {0, 1}
Rates == 1..MaxRate
StreamRates == 1..MaxStreamRate
Taps == 1..MaxTaps
StreamTaps == 1..MaxStreamTaps
CtorRates == (0 - MaxCtorRate)..MaxCtorRate
\* what a division by zero may leave in its destination when it does not trap
UBValues == {0 - 1, 0, 1}

\* ------------------------------------------------------- the tests' values
TestInputRate == 120000
TestOutputRate == 100000
DefaultFilterTaps == 127
TestBlockPairs == 1000
TestBlockCount == 5
TestLongBlockPairs == 12000
TestArgs == <<TestInputRate, TestOutputRate, DefaultFilterTaps>>
\* IQResamplerIPP: rolloff values in hundredths, the Kaiser window parameter
ResetRolloff == 90
KaiserAlpha == 9
\* the significand of a float: 24 bits
FloatBits == 24
Rolloffs == {50, 70, 90, 95}

VARIABLES
    inputRate_, outputRate_, upFactor_, downFactor_, filterLen_,
    filter_,       \* the coefficient table generateFilter leaves
    stateI_, stateQ_, inputPos_,
    ctorArgs,      \* <<inputRate, outputRate, filterTaps>> handed to the constructor
    lastOp,        \* "none" (not constructed), "ctor", "process", "reset", "dtor"
    lastInput,     \* argument of the last process call
    lastOutput,    \* its return value (numerators over RatioDen)
    lastError,     \* "none", "invalid_argument", "length_error", "runtime_error", "trap"
    resetStage, refInput, refOutput,   \* progress through reset; process(X); reset; process(X)
    calls, streamPairs, aggCount, prevPos, callPos, lastBase, deferred,
    olderDeferred, \* stream bookkeeping
    peer,          \* the members and last call of a second IQResamplerCPP instance
    active,        \* "A" or "B": the instance the variables above belong to
    prior,         \* <<stateI_, stateQ_>> as they were before the last process call
    ipp,           \* the members of an IQResamplerIPP instance
    ippArgs,       \* <<inputRate, outputRate, rolloff, filterLen>> handed to its constructor
    vendorCalls,   \* invocations of ippsResamplePolyphaseFixed_32f so far
    vendorHeap,    \* the buffers ippsMalloc_8u has returned and ippsFree has been given
    twin,          \* two instances driven by the same calls: what sets them apart, and
                   \* the call the second one has still to make
    calc,          \* one evaluation of process's int arithmetic
    race           \* two process calls running on one instance

object == <<inputRate_, outputRate_, upFactor_, downFactor_, filterLen_, filter_,
            stateI_, stateQ_, inputPos_>>
observed == <<ctorArgs, lastOp, lastInput, lastOutput, lastError>>
resetGhost == <<resetStage, refInput, refOutput>>
streamGhost == <<calls, streamPairs, aggCount, prevPos, callPos, lastBase,
                 deferred, olderDeferred>>
pairVars == <<peer, active, prior>>
ippVars == <<ipp, ippArgs, vendorCalls, vendorHeap>>
auxVars == <<twin, calc, race>>
vars == <<object, observed, resetGhost, streamGhost, pairVars, ippVars, auxVars>>

\* ------------------------------------------------------------- arithmetic
Abs(x) == IF x < 0 THEN 0 - x ELSE x

\* C++ int division and remainder (truncation toward zero), b # 0
CDiv(a, b) ==
    LET q == Abs(a) \div Abs(b)
    IN  IF (a < 0) = (b < 0) THEN q ELSE 0 - q

CMod(a, b) == a - b * CDiv(a, b)

\* mutant: the loop body runs at most once
gcd_OneStep(a, b) == IF b = 0 THEN a ELSE b

RECURSIVE gcd(_, _)
gcd(a, b) == IF b = 0 THEN a ELSE gcd(b, CMod(a, b))

Zeros(n) == [k \in 1..n |-> 0]

\* every integer below FloatExact is a float
FloatExact == 2 ^ FloatBits

\* (float)x for an int x >= 0: x when it has at most FloatBits significant bits,
\* else the nearest multiple of the spacing u of the floats around x, a tie
\* going to the even significand
ToFloat(x) ==
    IF x < FloatExact
    THEN x
    ELSE LET u  == CHOOSE v \in {2 ^ j : j \in 1..(31 - FloatBits)} :
                       (x \div v) < FloatExact /\ (x \div v) >= FloatExact \div 2
             q  == x \div u
             r  == x % u
             up == 2 * r > u \/ (2 * r = u /\ q % 2 = 1)
         IN  IF up THEN (q + 1) * u ELSE q * u


Min(a, b) == IF a < b THEN a ELSE b

Max(a, b) == IF a < b THEN b ELSE a

\* ------------------------------------------------------------ constructor
\* generateFilter(numTaps, 0.5f / cutoffDen): the table of numTaps coefficients.
\* The windowed-sinc values are transcendental; coefficient filter_[i] is
\* represented by what it is computed from: i, numTaps and the cutoff.
generateFilter(numTaps, cutoffDen) ==
    [k \in 1..numTaps |-> [tap |-> k - 1, numTaps |-> numTaps, cutoffDen |-> cutoffDen]]

\* IQResamplerCPP::IQResamplerCPP, for gcd(inputRate, outputRate) # 0
IQResamplerCPP(inputRate, outputRate, filterTaps) ==
    LET g == gcd(inputRate, outputRate)
    IN  [inputRate_  |-> inputRate,
         outputRate_ |-> outputRate,
         upFactor_   |-> CDiv(outputRate, g),
         downFactor_ |-> CDiv(inputRate, g),
         filterLen_  |-> filterTaps,
         filter_     |-> generateFilter(filterTaps,
                                        Max(CDiv(outputRate, g), CDiv(inputRate, g))),
         stateI_     |-> Zeros(filterTaps),
         stateQ_     |-> Zeros(filterTaps),
         inputPos_   |-> 0]

\* ---------------------------------------------------------------- process
\* mutant: the size check is missing
OddSize_Unchecked(input) == FALSE

OddSize(input) == Len(input) % 2 # 0

NumInputSamples(input) == Len(input) \div 2

\* extended sequences: state followed by the block's channel
inI(input) == stateI_ \o [k \in 1..NumInputSamples(input) |-> input[2 * k - 1]]

inQ(input) == stateQ_ \o [k \in 1..NumInputSamples(input) |-> input[2 * k]]

\* (int)((long long)numInputSamples * outputRate_ / inputRate_), inputRate_ # 0
NumOutputSamples(input) == CDiv(NumInputSamples(input) * outputRate_, inputRate_)

\* output.reserve(numOutputSamples * 2 + 10) throws std::length_error when the
\* int argument is negative (it converts to a size_t above max_size())
ReserveThrows(numOutputSamples) == numOutputSamples * 2 + 10 < 0

\* ratio = (float)inputRate_ / (float)outputRate_ as RatioNum / RatioDen.  The loop
\* body runs only with numOutputSamples > 0, where the ratio is not negative.
RatioNum == ToFloat(Abs(inputRate_))

RatioDen == ToFloat(Abs(outputRate_))

\* mutant: positions counted from the start of the extended sequence
InputPos_FromZero(i) == i * RatioNum

\* inputPos = (float)stateI_.size() + i * ratio, as a numerator over RatioDen
InputPos(i) == Len(stateI_) * RatioDen + i * RatioNum

\* inI.size() for a block of numInputSamples pairs
ExtendedSize(numInputSamples) == Len(stateI_) + numInputSamples

\* mutant: the margin at the tail is the whole filter length
Emits_FullMargin(numInputSamples, i) ==
    /\ outputRate_ # 0
    /\ InputPos(i) < (ExtendedSize(numInputSamples) - filterLen_) * RatioDen

\* mutant: a position equal to the threshold is emitted too
Emits_Inclusive(numInputSamples, i) ==
    /\ outputRate_ # 0
    /\ InputPos(i) <= (ExtendedSize(numInputSamples) - filterLen_ \div 2) * RatioDen

\* inputPos < inI.size() - filterLen_/2 (false for the NaN of a zero outputRate_)
Emits(numInputSamples, i) ==
    /\ outputRate_ # 0
    /\ InputPos(i) < (ExtendedSize(numInputSamples) - filterLen_ \div 2) * RatioDen

\* mutant: the sample below the position is copied, the fraction is dropped
Interpolated_Nearest(ch, i) ==
    LET idx == InputPos(i) \div RatioDen
    IN  ch[idx + 1] * RatioDen

\* mutant: the interpolated value is weighted with the coefficient table
Interpolated_Filtered(ch, i) ==
    LET idx  == InputPos(i) \div RatioDen
        frac == InputPos(i) % RatioDen
        w    == filter_[1].cutoffDen
    IN  IF idx + 1 < Len(ch)
        THEN (ch[idx + 1] * (RatioDen - frac) + ch[idx + 2] * frac) * w
        ELSE ch[idx + 1] * RatioDen * w

\* linear interpolation of channel sequence ch at output index i, as a numerator
\* over RatioDen
Interpolated(ch, i) ==
    LET idx  == InputPos(i) \div RatioDen
        frac == InputPos(i) % RatioDen
    IN  IF idx + 1 < Len(ch)
        THEN ch[idx + 1] * (RatioDen - frac) + ch[idx + 2] * frac
        ELSE ch[idx + 1] * RatioDen

\* the output indices i = 0 .. numOutputSamples-1 whose sample is pushed, in order
EmittedIndices(numInputSamples, numOutputSamples) ==
    SelectSeq([k \in 1..numOutputSamples |-> k - 1],
              LAMBDA i : Emits(numInputSamples, i))

\* mutant: the output vector is kept between calls and not cleared
Output_Accumulating(input, numOutputSamples) ==
    LET idxs == EmittedIndices(NumInputSamples(input), numOutputSamples)
        extI == inI(input)
        extQ == inQ(input)
    IN  lastOutput \o
        [k \in 1..(2 * Len(idxs)) |->
            IF k % 2 = 1 THEN Interpolated(extI, idxs[(k + 1) \div 2])
                         ELSE Interpolated(extQ, idxs[k \div 2])]

\* mutant: the I value of a pair takes in the Q channel
Output_CrossTalk(input, numOutputSamples) ==
    LET idxs == EmittedIndices(NumInputSamples(input), numOutputSamples)
        extI == inI(input)
        extQ == inQ(input)
    IN  [k \in 1..(2 * Len(idxs)) |->
            IF k % 2 = 1 THEN Interpolated(extI, idxs[(k + 1) \div 2])
                              + Interpolated(extQ, idxs[(k + 1) \div 2])
                         ELSE Interpolated(extQ, idxs[k \div 2])]

\* the vector process returns when numOutputSamples is the computed output size:
\* valI, valQ pushed for every emitted index
Output(input, numOutputSamples) ==
    LET idxs == EmittedIndices(NumInputSamples(input), numOutputSamples)
        extI == inI(input)
        extQ == inQ(input)
    IN  [k \in 1..(2 * Len(idxs)) |->
            IF k % 2 = 1 THEN Interpolated(extI, idxs[(k + 1) \div 2])
                         ELSE Interpolated(extQ, idxs[k \div 2])]

\* mutant: the history is taken from the start of the block
UpdatedState_FromStart(state, input, offset) ==
    LET n         == NumInputSamples(input)
        stateSize == Min(Len(state), n)
    IN  [k \in 1..Len(state) |->
            IF k <= stateSize
            THEN input[(k - 1) * 2 + offset + 1]
            ELSE state[k]]

\* mutant: the slots the block does not refresh are zeroed
UpdatedState_ZeroFill(state, input, offset) ==
    LET n         == NumInputSamples(input)
        stateSize == Min(Len(state), n)
    IN  [k \in 1..Len(state) |->
            IF k <= stateSize
            THEN input[(n - stateSize + (k - 1)) * 2 + offset + 1]
            ELSE 0]

\* "Update state with last samples": channel offset 0 for I, 1 for Q
UpdatedState(state, input, offset) ==
    LET n         == NumInputSamples(input)
        stateSize == Min(Len(state), n)
    IN  [k \in 1..Len(state) |->
            IF k <= stateSize
            THEN input[(n - stateSize + (k - 1)) * 2 + offset + 1]
            ELSE state[k]]


\* the body of process after the size check, for a given output size
ProcessBody(input, numOutputSamples) ==
    IF ReserveThrows(numOutputSamples)
    THEN /\ lastError' = "length_error"
         /\ lastOutput' = <<>>
         /\ UNCHANGED object
    ELSE /\ lastError' = "none"
         /\ lastOutput' = Output(input, numOutputSamples)
         /\ stateI_' = UpdatedState(stateI_, input, 0)
         /\ stateQ_' = UpdatedState(stateQ_, input, 1)
         /\ UNCHANGED <<inputRate_, outputRate_, upFactor_, downFactor_, filterLen_,
                        filter_, inputPos_>>

\* process(input) on a live instance; the division by a zero inputRate_ is
\* ProcessDivideByZero
ProcessCall(input) ==
    /\ lastOp # "none"
    /\ lastError # "trap"
    /\ OddSize(input) \/ inputRate_ # 0
    /\ lastOp' = "process"
    /\ lastInput' = input
    /\ UNCHANGED ctorArgs
    /\ IF OddSize(input)
       THEN /\ lastError' = "invalid_argument"
            /\ lastOutput' = <<>>
            /\ UNCHANGED object
       ELSE ProcessBody(input, NumOutputSamples(input))

\* ------------------------------------------------------------------ reset
\* mutant: only the I history is cleared
ResetCall_OnlyI ==
    /\ lastOp # "none"
    /\ lastError # "trap"
    /\ stateI_' = [k \in 1..Len(stateI_) |-> 0]
    /\ inputPos_' = 0
    /\ lastOp' = "reset"
    /\ lastError' = "none"
    /\ UNCHANGED <<inputRate_, outputRate_, upFactor_, downFactor_, filterLen_,
                   filter_, stateQ_, ctorArgs, lastInput, lastOutput>>

\* mutant: reset also empties the coefficient table
ResetCall_ClearsTable ==
    /\ lastOp # "none"
    /\ lastError # "trap"
    /\ stateI_' = [k \in 1..Len(stateI_) |-> 0]
    /\ stateQ_' = [k \in 1..Len(stateQ_) |-> 0]
    /\ filter_' = <<>>
    /\ inputPos_' = 0
    /\ lastOp' = "reset"
    /\ lastError' = "none"
    /\ UNCHANGED <<inputRate_, outputRate_, upFactor_, downFactor_, filterLen_,
                   ctorArgs, lastInput, lastOutput>>

ResetCall ==
    /\ lastOp # "none"
    /\ lastError # "trap"
    /\ stateI_' = [k \in 1..Len(stateI_) |-> 0]
    /\ stateQ_' = [k \in 1..Len(stateQ_) |-> 0]
    /\ inputPos_' = 0
    /\ lastOp' = "reset"
    /\ lastError' = "none"
    /\ UNCHANGED <<inputRate_, outputRate_, upFactor_, downFactor_, filterLen_,
                   filter_, ctorArgs, lastInput, lastOutput>>


\* ------------------------------------------------------------ bookkeeping
\* Progress through the call sequence reset(); a = process(X); reset(); b = process(X):
\* resetStage 1 after the first reset, 2 after a = process(X) (refInput = X,
\* refOutput = a), 3 after the second reset, 4 after b = process(X).
TrackResetPattern(input) ==
    IF lastError' # "none"
    THEN /\ resetStage' = 0
         /\ refInput' = <<>>
         /\ refOutput' = <<>>
    ELSE IF resetStage = 3 /\ input = refInput
    THEN /\ resetStage' = 4
         /\ UNCHANGED <<refInput, refOutput>>
    ELSE IF resetStage \in {1, 3}
    THEN /\ resetStage' = 2
         /\ refInput' = input
         /\ refOutput' = lastOutput'
    ELSE /\ resetStage' = 0
         /\ refInput' = <<>>
         /\ refOutput' = <<>>

TrackReset ==
    IF resetStage \in {2, 4}
    THEN /\ resetStage' = 3
         /\ UNCHANGED <<refInput, refOutput>>
    ELSE /\ resetStage' = 1
         /\ refInput' = <<>>
         /\ refOutput' = <<>>

\* The continuous stream: pair p (p = 1, 2, ...) of the signal fed since the
\* instance was constructed or reset.
SignalI(p) == p % 3

SignalQ(p) == (p + 1) % 2

\* the interleaved block of the n pairs that follow the first base pairs
StreamBlock(base, n) ==
    [k \in 1..(2 * n) |-> IF k % 2 = 1 THEN SignalI(base + (k + 1) \div 2)
                                       ELSE SignalQ(base + k \div 2)]

\* Stream position of output index i of the call that starts streamPairs pairs
\* into the stream, as a numerator over RatioDen: position Len(stateI_) of the
\* extended sequence is the first pair of the block.
StreamPos(i) == streamPairs * RatioDen + (InputPos(i) - Len(stateI_) * RatioDen)

NewStreamGhost ==
    /\ calls' = 0
    /\ streamPairs' = 0
    /\ aggCount' = 0
    /\ prevPos' = <<>>
    /\ callPos' = <<>>
    /\ lastBase' = 0
    /\ deferred' = {}
    /\ olderDeferred' = {}

\* callPos: the stream positions of the outputs of the last call, in output
\* order; prevPos: <<the position of the last output of the calls before it>>, or
\* <<>> when they emitted none; deferred: the positions the call on the last
\* non-empty block left out; olderDeferred: the positions a call left out that no
\* call has emitted since, although a further non-empty block has been processed.
TrackStream(input, nOut) ==
    LET n       == NumInputSamples(input)
        idxs    == EmittedIndices(n, nOut)
        skipped == {StreamPos(i) : i \in {j \in 0..(nOut - 1) : ~Emits(n, j)}}
    IN  /\ calls' = calls + 1
        /\ streamPairs' = streamPairs + n
        /\ aggCount' = aggCount + Len(lastOutput') \div 2
        /\ callPos' = [k \in 1..Len(idxs) |-> StreamPos(idxs[k])]
        /\ prevPos' = IF callPos = <<>> THEN prevPos ELSE <<callPos[Len(callPos)]>>
        /\ lastBase' = streamPairs
        /\ deferred' = IF n = 0 THEN deferred ELSE skipped
        /\ olderDeferred' =
               IF n = 0 THEN olderDeferred
               ELSE {p \in olderDeferred \cup deferred :
                        \A k \in 1..Len(callPos') : callPos'[k] # p}

\* ---------------------------------------------------------------- actions
\* every block of at most MaxPairs pairs over Samples
EvenBlocks == UNION {[1..(2 * n) -> Samples] : n \in 0..MaxPairs}

\* blocks with an unmatched sample: 2n+1 copies of one value, as the vector of
\* TEST_F(IQResamplerTest, InvalidInputSize)
OddBlocks == {[k \in 1..(2 * n + 1) |-> x] : n \in 0..(MaxPairs - 1), x \in Samples}

Blocks == EvenBlocks \cup OddBlocks

\* process on any block of Blocks
Process ==
    \E input \in Blocks :
        /\ ProcessCall(input)
        /\ TrackResetPattern(input)
        /\ UNCHANGED <<streamGhost, pairVars, ippVars, auxVars>>

\* process on the block of the n pairs that continue the stream
StreamStep(n) ==
    LET block == StreamBlock(streamPairs, n)
    IN  /\ ProcessCall(block)
        /\ TrackResetPattern(block)
        /\ IF lastError' = "none"
           THEN TrackStream(block, NumOutputSamples(block))
           ELSE UNCHANGED streamGhost

ProcessStream ==
    \E n \in 0..MaxStreamPairs :
        /\ calls < MaxCalls
        /\ StreamStep(n)
        /\ UNCHANGED <<pairVars, ippVars, auxVars>>

ProcessShort ==
    \E n \in 0..MaxPairs :
        /\ calls < MaxCalls
        /\ StreamStep(n)
        /\ UNCHANGED <<pairVars, ippVars, auxVars>>

\* process on an instance whose inputRate_ is 0: the integer division of line 112
\* is undefined; it traps, or leaves some value as the output size
ProcessDivideByZero ==
    \E n \in 0..MaxPairs :
        /\ lastOp # "none"
        /\ lastError # "trap"
        /\ inputRate_ = 0
        /\ calls < MaxCalls
        /\ lastOp' = "process"
        /\ lastInput' = StreamBlock(streamPairs, n)
        /\ UNCHANGED <<ctorArgs, pairVars, ippVars, auxVars>>
        /\ \/ /\ lastError' = "trap"
              /\ lastOutput' = <<>>
              /\ UNCHANGED <<object, resetGhost, streamGhost>>
           \/ \E q \in UBValues :
                /\ ProcessBody(StreamBlock(streamPairs, n), q)
                /\ TrackResetPattern(StreamBlock(streamPairs, n))
                /\ IF lastError' = "none"
                   THEN TrackStream(StreamBlock(streamPairs, n), q)
                   ELSE UNCHANGED streamGhost

Reset ==
    /\ ResetCall
    /\ TrackReset
    /\ NewStreamGhost
    /\ UNCHANGED <<pairVars, ippVars, auxVars>>

InitGhost ==
    /\ resetStage = 0
    /\ refInput = <<>>
    /\ refOutput = <<>>
    /\ calls = 0
    /\ streamPairs = 0
    /\ aggCount = 0
    /\ prevPos = <<>>
    /\ callPos = <<>>
    /\ lastBase = 0
    /\ deferred = {}
    /\ olderDeferred = {}

\* no second instance
InitNoPeer ==
    /\ peer = <<>>
    /\ active = "A"
    /\ prior = <<>>

\* no IQResamplerIPP instance
InitNoIPP ==
    /\ ipp = <<>>
    /\ ippArgs = <<>>
    /\ vendorCalls = 0
    /\ vendorHeap = <<>>

\* one instance, one call at a time, no arithmetic on its own
InitNoAux ==
    /\ twin = <<>>
    /\ calc = <<>>
    /\ race = <<>>

\* the state a constructor call with these arguments leaves
Constructed(args) ==
    LET r == IQResamplerCPP(args[1], args[2], args[3])
    IN  /\ inputRate_ = r.inputRate_
        /\ outputRate_ = r.outputRate_
        /\ upFactor_ = r.upFactor_
        /\ downFactor_ = r.downFactor_
        /\ filterLen_ = r.filterLen_
        /\ filter_ = r.filter_
        /\ stateI_ = r.stateI_
        /\ stateQ_ = r.stateQ_
        /\ inputPos_ = r.inputPos_
        /\ ctorArgs = args
        /\ lastOp = "ctor"
        /\ lastInput = <<>>
        /\ lastOutput = <<>>
        /\ lastError = "none"

Init ==
    /\ \E args \in Rates \X Rates \X Taps : Constructed(args)
    /\ InitGhost
    /\ InitNoPeer
    /\ InitNoIPP
    /\ InitNoAux

Next == Process \/ Reset

Spec == Init /\ [][Next]_vars

InitStream ==
    /\ \E args \in (StreamRates \X StreamRates \X StreamTaps) \cup {TestArgs} : Constructed(args)
    /\ InitGhost
    /\ InitNoPeer
    /\ InitNoIPP
    /\ InitNoAux

NextStream == ProcessStream \/ Reset

SpecStream == InitStream /\ [][NextStream]_vars

\* ------------------------------------------- construction with any arguments
\* before the constructor runs: the arguments are chosen, no member is set
InitCtor ==
    /\ ctorArgs \in CtorRates \X CtorRates \X Taps
    /\ lastOp = "none"
    /\ inputRate_ = 0
    /\ outputRate_ = 0
    /\ upFactor_ = 0
    /\ downFactor_ = 0
    /\ filterLen_ = 0
    /\ filter_ = <<>>
    /\ stateI_ = <<>>
    /\ stateQ_ = <<>>
    /\ inputPos_ = 0
    /\ lastInput = <<>>
    /\ lastOutput = <<>>
    /\ lastError = "none"
    /\ InitGhost
    /\ InitNoPeer
    /\ InitNoIPP
    /\ InitNoAux

\* the constructor: no argument is checked
Construct ==
    /\ lastOp = "none"
    /\ gcd(ctorArgs[1], ctorArgs[2]) # 0
    /\ LET r == IQResamplerCPP(ctorArgs[1], ctorArgs[2], ctorArgs[3])
       IN  /\ inputRate_' = r.inputRate_
           /\ outputRate_' = r.outputRate_
           /\ upFactor_' = r.upFactor_
           /\ downFactor_' = r.downFactor_
           /\ filterLen_' = r.filterLen_
           /\ filter_' = r.filter_
           /\ stateI_' = r.stateI_
           /\ stateQ_' = r.stateQ_
           /\ inputPos_' = r.inputPos_
    /\ lastOp' = "ctor"
    /\ UNCHANGED <<ctorArgs, lastInput, lastOutput, lastError, resetGhost, streamGhost,
                   pairVars, ippVars, auxVars>>

\* the constructor with both rates 0: g = 0 and the integer divisions of lines 74
\* and 75 are undefined; they trap, or leave some values in the two factors
ConstructDivideByZero ==
    /\ lastOp = "none"
    /\ gcd(ctorArgs[1], ctorArgs[2]) = 0
    /\ lastOp' = "ctor"
    /\ UNCHANGED <<ctorArgs, lastInput, lastOutput, inputPos_, resetGhost, streamGhost,
                   pairVars, ippVars, auxVars>>
    /\ \/ /\ lastError' = "trap"
          /\ UNCHANGED <<inputRate_, outputRate_, upFactor_, downFactor_, filterLen_,
                         filter_, stateI_, stateQ_>>
       \/ /\ lastError' = "none"
          /\ inputRate_' = ctorArgs[1]
          /\ outputRate_' = ctorArgs[2]
          /\ upFactor_' \in UBValues
          /\ downFactor_' \in UBValues
          /\ filterLen_' = ctorArgs[3]
          /\ filter_' = generateFilter(ctorArgs[3], Max(upFactor_', downFactor_'))
          /\ stateI_' = Zeros(ctorArgs[3])
          /\ stateQ_' = Zeros(ctorArgs[3])

NextCtor ==
    Construct \/ ConstructDivideByZero \/ ProcessShort \/ ProcessDivideByZero \/ Reset

SpecCtor == InitCtor /\ [][NextCtor]_vars


\* ------------------------------------------------------------ two instances
\* A second IQResamplerCPP instance is kept in peer while the caller works on the
\* first, and the other way round: the member variables and the record of the last
\* call belong to the instance named by active.  The second instance has the
\* arguments of the first, or its two rates exchanged.
PairArgs == Rates \X Rates \X Taps

\* a freshly constructed instance
InstanceOf(args) ==
    LET r == IQResamplerCPP(args[1], args[2], args[3])
    IN  [inputRate_  |-> r.inputRate_,
         outputRate_ |-> r.outputRate_,
         upFactor_   |-> r.upFactor_,
         downFactor_ |-> r.downFactor_,
         filterLen_  |-> r.filterLen_,
         filter_     |-> r.filter_,
         stateI_     |-> r.stateI_,
         stateQ_     |-> r.stateQ_,
         inputPos_   |-> r.inputPos_,
         ctorArgs    |-> args,
         lastOp      |-> "ctor",
         lastInput   |-> <<>>,
         lastOutput  |-> <<>>,
         lastError   |-> "none",
         prior       |-> <<>>]

\* mutant: the histories of the instance the caller leaves are overwritten with
\* those of the other instance
Parked_HistoryOverwritten ==
    [inputRate_  |-> inputRate_,
     outputRate_ |-> outputRate_,
     upFactor_   |-> upFactor_,
     downFactor_ |-> downFactor_,
     filterLen_  |-> filterLen_,
     filter_     |-> filter_,
     stateI_     |-> peer.stateI_,
     stateQ_     |-> peer.stateQ_,
     inputPos_   |-> inputPos_,
     ctorArgs    |-> ctorArgs,
     lastOp      |-> lastOp,
     lastInput   |-> lastInput,
     lastOutput  |-> lastOutput,
     lastError   |-> lastError,
     prior       |-> prior]

\* the active instance: every member is a non-static member of the object
Parked ==
    [inputRate_  |-> inputRate_,
     outputRate_ |-> outputRate_,
     upFactor_   |-> upFactor_,
     downFactor_ |-> downFactor_,
     filterLen_  |-> filterLen_,
     filter_     |-> filter_,
     stateI_     |-> stateI_,
     stateQ_     |-> stateQ_,
     inputPos_   |-> inputPos_,
     ctorArgs    |-> ctorArgs,
     lastOp      |-> lastOp,
     lastInput   |-> lastInput,
     lastOutput  |-> lastOutput,
     lastError   |-> lastError,
     prior       |-> prior]

\* the caller turns to the other instance
Swap ==
    /\ peer' = Parked
    /\ active' = IF active = "A" THEN "B" ELSE "A"
    /\ inputRate_' = peer.inputRate_
    /\ outputRate_' = peer.outputRate_
    /\ upFactor_' = peer.upFactor_
    /\ downFactor_' = peer.downFactor_
    /\ filterLen_' = peer.filterLen_
    /\ filter_' = peer.filter_
    /\ stateI_' = peer.stateI_
    /\ stateQ_' = peer.stateQ_
    /\ inputPos_' = peer.inputPos_
    /\ ctorArgs' = peer.ctorArgs
    /\ lastOp' = peer.lastOp
    /\ lastInput' = peer.lastInput
    /\ lastOutput' = peer.lastOutput
    /\ lastError' = peer.lastError
    /\ prior' = peer.prior
    /\ resetStage' = 0
    /\ refInput' = <<>>
    /\ refOutput' = <<>>
    /\ NewStreamGhost
    /\ UNCHANGED <<ippVars, auxVars>>

\* process on the active instance, on the first n pairs of the signal
PairProcess ==
    \E n \in 0..MaxPairs :
        /\ ProcessCall(StreamBlock(0, n))
        /\ prior' = <<stateI_, stateQ_>>
        /\ UNCHANGED <<resetGhost, streamGhost, peer, active, ippVars, auxVars>>

InitPair ==
    /\ \E a \in PairArgs :
          \E b \in {a, <<a[2], a[1], a[3]>>} :
              /\ Constructed(a)
              /\ peer = InstanceOf(b)
    /\ active = "A"
    /\ prior = <<>>
    /\ InitGhost
    /\ InitNoIPP
    /\ InitNoAux

NextPair == PairProcess \/ Reset \/ Swap

SpecPair == InitPair /\ [][NextPair]_vars

\* ------------------------------------------- two instances, the same calls
\* Two IQResamplerCPP instances are given the same sequence of process and reset
\* calls: the first makes a call, then the second makes the corresponding one.
\* twin.mode says what sets the second apart from the first:
\*   "table"   its coefficient table holds other values;
\*   "scaled"  its rates are a multiple of the first one's;
\*   "altQ"    its blocks differ in the Q samples only;
\*   "altI"    its blocks differ in the I samples only.
\* twin.pending is the call the first has made and the second has not yet made.
TwinModes == {"table", "scaled", "altQ", "altI"}

TwinCounts == (0..MaxPairs) \cup {MaxTwinPairs}

\* the rates 3 : 1 with a one-slot history
ThirdArgs == <<3, 1, 1>>

TwinArgs == PairArgs \cup {ThirdArgs}

\* a factor k whose multiple 3k is the first odd number above FloatExact that is
\* no float
BigScale == (FloatExact + 5) \div 3

\* The float sums and products that follow the conversion of the rates are exact
\* in the model, so BigScale is applied to the instance for which the compiled
\* program was run as well: IQResamplerCPP(3, 1, 1) against
\* IQResamplerCPP(16777221, 5592407, 1).
TwinPeerArgs(mode, a) ==
    IF mode = "scaled"
    THEN {<<k * a[1], k * a[2], a[3]>> :
              k \in (2..MaxScale) \cup (IF a = ThirdArgs THEN {BigScale} ELSE {})}
    ELSE {a}

\* the second instance as constructed
TwinPeer(mode, b) ==
    IF mode = "table"
    THEN [InstanceOf(b) EXCEPT
            !.filter_ = generateFilter(b[3], @[1].cutoffDen + 1)]
    ELSE InstanceOf(b)

\* the block the second instance is given when the first is given the first n
\* pairs of the signal
TwinBlock(mode, n) ==
    [k \in 1..(2 * n) |->
        IF (mode = "altQ" /\ k % 2 = 0) \/ (mode = "altI" /\ k % 2 = 1)
        THEN StreamBlock(0, n)[k] + 1
        ELSE StreamBlock(0, n)[k]]

\* the first instance makes a call
TwinCall ==
    /\ active = "A"
    /\ twin.pending = <<>>
    /\ \/ \E n \in TwinCounts :
            /\ ProcessCall(StreamBlock(0, n))
            /\ twin' = [twin EXCEPT !.pending = <<"process", n>>]
       \/ /\ ResetCall
          /\ twin' = [twin EXCEPT !.pending = <<"reset">>]
    /\ UNCHANGED <<resetGhost, streamGhost, pairVars, ippVars, calc, race>>

\* the second instance makes the corresponding call
TwinReplay ==
    /\ active = "B"
    /\ twin.pending # <<>>
    /\ IF twin.pending[1] = "reset"
       THEN ResetCall
       ELSE ProcessCall(TwinBlock(twin.mode, twin.pending[2]))
    /\ twin' = [twin EXCEPT !.pending = <<>>]
    /\ UNCHANGED <<resetGhost, streamGhost, pairVars, ippVars, calc, race>>

\* the caller turns to the instance whose turn it is
TwinSwap ==
    /\ (active = "A") = (twin.pending # <<>>)
    /\ Swap

InitTwin ==
    /\ \E mode \in TwinModes :
          \E a \in TwinArgs :
              \E b \in TwinPeerArgs(mode, a) :
                  /\ Constructed(a)
                  /\ peer = TwinPeer(mode, b)
                  /\ twin = [mode |-> mode, pending |-> <<>>]
    /\ active = "A"
    /\ prior = <<>>
    /\ calc = <<>>
    /\ race = <<>>
    /\ InitGhost
    /\ InitNoIPP

NextTwin == TwinCall \/ TwinSwap \/ TwinReplay

SpecTwin == InitTwin /\ [][NextTwin]_vars

\* --------------------------------------------------- the width of int
\* process computes the block's pair count, the output count and every index in
\* int, and one product in long long.  TLC's own integers have 32 bits, so the
\* arithmetic is evaluated at a reduced width: int has IntBits bits and long long
\* twice as many.  calc holds one evaluation, for the rates and the history
\* length of the instance and a block of calc.n pairs.
IntMax == 2 ^ (IntBits - 1) - 1

\* conversion to int: the value modulo 2^IntBits
ToInt(x) == ((x + IntMax + 1) % (2 ^ IntBits)) - (IntMax + 1)

\* mutant: the product is computed in int
ToLong_Narrow(x) == ToInt(x)

\* conversion to long long: the value modulo 2^(2*IntBits)
ToLong(x) ==
    ((x + 2 ^ (2 * IntBits - 1)) % (2 ^ (2 * IntBits))) - 2 ^ (2 * IntBits - 1)

IntRates == {1, 2, 3, IntMax - 1, IntMax}

IntTaps == 1..MaxTaps

\* pair counts, the largest being the largest int
IntCounts == {0, 1, 2, 3, IntMax \div 2, IntMax \div 2 + 1, IntMax \div 2 + 2, IntMax}

\* (int)((long long)numInputSamples * outputRate_ / inputRate_)
NumOutputSamplesInt(n) == ToInt(CDiv(ToLong(n * outputRate_), inputRate_))

\* An int expression whose value x does not fit overflows: the behaviour is
\* undefined.  The build either wraps the value or carries on with a wider
\* register that holds x.
IntOutcome(x, wraps) == IF x <= IntMax \/ ~wraps THEN x ELSE ToInt(x)

\* the offsets of input that the copy loop and the history update read
InputReads(n, wraps) ==
    LET stateSize == Min(Len(stateI_), n)
    IN  UNION {{IntOutcome(i * 2, wraps), IntOutcome(i * 2 + 1, wraps)} : i \in 0..(n - 1)}
        \cup UNION {{IntOutcome((n - stateSize + i) * 2, wraps),
                     IntOutcome((n - stateSize + i) * 2 + 1, wraps)} :
                        i \in 0..(stateSize - 1)}

\* the offsets of inI and inQ that the interpolation reads: idx, and idx + 1
\* where idx + 1 < inI.size()
ExtendedReads(n, numOutputSamples) ==
    UNION {LET idx == InputPos(i) \div RatioDen
           IN  IF idx + 1 < ExtendedSize(n) THEN {idx, idx + 1} ELSE {idx} :
              i \in {j \in 0..(numOutputSamples - 1) : Emits(n, j)}}

\* the offsets of stateI_ and stateQ_ that the history update writes
HistoryWrites(n) == 0..(Min(Len(stateI_), n) - 1)

\* process's arithmetic on a block of n pairs
Evaluate ==
    /\ calc = <<>>
    /\ \E n \in IntCounts :
          \E wraps \in BOOLEAN :
              /\ wraps => 2 * n - 1 > IntMax
              /\ calc' = [n |-> n,
                          wraps |-> wraps,
                          product |-> ToLong(n * outputRate_),
                          count |-> NumOutputSamplesInt(n),
                          inputReads |-> InputReads(n, wraps),
                          extendedReads |-> ExtendedReads(n, NumOutputSamplesInt(n)),
                          historyWrites |-> HistoryWrites(n)]
    /\ UNCHANGED <<object, observed, resetGhost, streamGhost, pairVars, ippVars,
                   twin, race>>

InitInt ==
    /\ \E args \in IntRates \X IntRates \X IntTaps : Constructed(args)
    /\ InitGhost
    /\ InitNoPeer
    /\ InitNoIPP
    /\ InitNoAux

NextInt == Evaluate

SpecInt == InitInt /\ [][NextInt]_vars

\* ------------------------------------ two process calls on one instance
\* Threads 1 and 2 each call process on the same instance, with no lock.  A call
\* builds its extended sequences and its output from the block it was given (the
\* output reads no history slot), and then stores into the shared histories one
\* element at a time: stateI_[i], stateQ_[i] for i = 0 .. stateSize-1.  The
\* stores of the two calls interleave in any order.
\*   race.pc[t]     "idle", "I" (next store: stateI_[i]), "Q" (stateQ_[i]), "done"
\*   race.i[t]      the loop counter of the history update
\*   race.input[t]  the block of the call, race.output[t] the vector it returns
\*   race.start     <<stateI_, stateQ_>> when the first call began
Threads == {1, 2}

\* thread 1 is given the first n pairs of the signal, thread 2 the n pairs that
\* follow the first MaxPairs
RaceBlock(t, n) == StreamBlock((t - 1) * MaxPairs, n)

\* mutant: the sample is taken from the start of the block
SlotSample_FromStart(input, i, offset) == input[i * 2 + offset + 1]

\* input[(numInputSamples - stateSize + i) * 2 + offset]
SlotSample(input, i, offset) ==
    LET n         == NumInputSamples(input)
        stateSize == Min(Len(stateI_), n)
    IN  input[(n - stateSize + i) * 2 + offset + 1]

\* a call starts: everything up to the history update runs on the call's own data
RaceBegin ==
    \E t \in Threads :
        \E n \in 1..MaxPairs :
            /\ race.pc[t] = "idle"
            /\ race' = [race EXCEPT
                          !.pc[t] = "I",
                          !.i[t] = 0,
                          !.input[t] = RaceBlock(t, n),
                          !.output[t] = Output(RaceBlock(t, n),
                                               NumOutputSamples(RaceBlock(t, n))),
                          !.start = IF race.pc[3 - t] = "idle"
                                    THEN <<stateI_, stateQ_>> ELSE @]
            /\ UNCHANGED <<object, observed, resetGhost, streamGhost, pairVars,
                           ippVars, twin, calc>>

\* a call stores one element; after the last one it returns
RaceStore ==
    \E t \in Threads :
        LET input     == race.input[t]
            i         == race.i[t]
            stateSize == Min(Len(stateI_), NumInputSamples(input))
            last      == race.pc[t] = "Q" /\ i + 1 = stateSize
        IN  /\ race.pc[t] \in {"I", "Q"}
            /\ IF race.pc[t] = "I"
               THEN /\ stateI_' = [stateI_ EXCEPT ![i + 1] = SlotSample(input, i, 0)]
                    /\ race' = [race EXCEPT !.pc[t] = "Q"]
                    /\ UNCHANGED stateQ_
               ELSE /\ stateQ_' = [stateQ_ EXCEPT ![i + 1] = SlotSample(input, i, 1)]
                    /\ race' = [race EXCEPT !.pc[t] = IF last THEN "done" ELSE "I",
                                            !.i[t] = i + 1]
                    /\ UNCHANGED stateI_
            /\ IF last
               THEN /\ lastOp' = "process"
                    /\ lastInput' = input
                    /\ lastOutput' = race.output[t]
                    /\ lastError' = "none"
               ELSE UNCHANGED <<lastOp, lastInput, lastOutput, lastError>>
            /\ UNCHANGED <<inputRate_, outputRate_, upFactor_, downFactor_, filterLen_,
                           filter_, inputPos_, ctorArgs, resetGhost, streamGhost,
                           pairVars, ippVars, twin, calc>>

InitRace ==
    /\ \E args \in PairArgs : Constructed(args)
    /\ race = [pc |-> <<"idle", "idle">>, i |-> <<0, 0>>, input |-> <<<<>>, <<>>>>,
               output |-> <<<<>>, <<>>>>, start |-> <<>>]
    /\ twin = <<>>
    /\ calc = <<>>
    /\ InitGhost
    /\ InitNoPeer
    /\ InitNoIPP

NextRace == RaceBegin \/ RaceStore

SpecRace == InitRace /\ [][NextRace]_vars

\* ------------------------------------------------------ accelerated backend
\* IQResamplerIPP (src/iq_resampler_ipp.cpp).  The vendor library is outside the
\* repository.  A specification structure is represented by what
\* ippsResamplePolyphaseFixedInit_32f was last given for it; a vendor call may
\* report an error; the samples ippsResamplePolyphaseFixed_32f writes are
\* represented by terms naming the structure and the input they come from, and
\* their number is the nominal floor(len * outRate / inRate).
IPPRates == 1..MaxIPPRate

IPPLens == 1..MaxIPPLen

\* a null pointer
NullSpec ==
    [allocated |-> FALSE, inRate |-> 0, outRate |-> 0, len |-> 0,
     rolloff |-> 0, alpha |-> 0]

\* the structure ippsResamplePolyphaseFixedInit_32f leaves
InitSpec(inRate, outRate, len, rolloff, alpha) ==
    [allocated |-> TRUE, inRate |-> inRate, outRate |-> outRate, len |-> len,
     rolloff |-> rolloff, alpha |-> alpha]

\* the members after a constructor call that returns
IQResamplerIPP(inputRate, outputRate, rolloff, filterLen) ==
    LET g == gcd(inputRate, outputRate)
    IN  [inputRate_  |-> inputRate,
         outputRate_ |-> outputRate,
         upFactor_   |-> CDiv(outputRate, g),
         downFactor_ |-> CDiv(inputRate, g),
         filterLen_  |-> filterLen,
         pSpecI_     |-> InitSpec(inputRate, outputRate, filterLen, rolloff, KaiserAlpha),
         pSpecQ_     |-> InitSpec(inputRate, outputRate, filterLen, rolloff, KaiserAlpha)]

\* the vendor calls of the constructor, in order; each may fail
CtorSteps == {"sizeI", "allocI", "initI", "sizeQ", "allocQ", "initQ"}

\* vendorHeap counts, for the I and the Q buffer, the pointers ippsMalloc_8u has
\* returned and the calls of ippsFree
NoBuffers == [mallocI |-> 0, mallocQ |-> 0, freeI |-> 0, freeQ |-> 0]

\* cleanup(): each pointer that is not null is freed and set to null
Cleanup(members, heap) ==
    [ipp  |-> [members EXCEPT !.pSpecI_ = NullSpec, !.pSpecQ_ = NullSpec],
     heap |-> [heap EXCEPT
                 !.freeI = IF members.pSpecI_.allocated THEN @ + 1 ELSE @,
                 !.freeQ = IF members.pSpecQ_.allocated THEN @ + 1 ELSE @]]

\* the constructor has a buffer for the channel when the named vendor call fails
\* ("none": no call fails)
HasBufferI(failed) == failed \in {"initI", "sizeQ", "allocQ", "initQ", "none"}

HasBufferQ(failed) == failed \in {"initQ", "none"}

\* mutant: no cleanup() where the allocation for Q fails
CleansUp_NotAfterAllocQ(failed) == failed \in {"initI", "sizeQ", "initQ"}

\* the failures after which the constructor calls cleanup() before it throws
CleansUp(failed) == failed \in {"initI", "sizeQ", "allocQ", "initQ"}

\* the members and the heap when the constructor returns or throws
IPPConstructed(failed) ==
    LET r       == IQResamplerIPP(ippArgs[1], ippArgs[2], ippArgs[3], ippArgs[4])
        members == [r EXCEPT
                      !.pSpecI_ = IF HasBufferI(failed) THEN @ ELSE NullSpec,
                      !.pSpecQ_ = IF HasBufferQ(failed) THEN @ ELSE NullSpec]
        heap    == [vendorHeap EXCEPT
                      !.mallocI = IF HasBufferI(failed) THEN @ + 1 ELSE @,
                      !.mallocQ = IF HasBufferQ(failed) THEN @ + 1 ELSE @]
    IN  IF CleansUp(failed)
        THEN Cleanup(members, heap)
        ELSE [ipp |-> members, heap |-> heap]

\* the constructor: it returns, or one of its vendor calls reports an error and it
\* throws std::runtime_error, after cleanup() where the code calls it
IPPConstruct ==
    /\ lastOp = "none"
    /\ lastOp' = "ctor"
    /\ \E failed \in CtorSteps \cup {"none"} :
          /\ ipp' = IPPConstructed(failed).ipp
          /\ vendorHeap' = IPPConstructed(failed).heap
          /\ lastError' = IF failed = "none" THEN "none" ELSE "runtime_error"
    /\ UNCHANGED <<object, ctorArgs, lastInput, lastOutput, resetGhost, streamGhost,
                   pairVars, auxVars, ippArgs, vendorCalls>>

\* an instance exists: the constructor has returned, the destructor has not run
IPPLive ==
    /\ lastOp \notin {"none", "dtor"}
    /\ ~(lastOp = "ctor" /\ lastError = "runtime_error")

\* IQResamplerIPP::~IQResamplerIPP
IPPDestroy ==
    /\ IPPLive
    /\ lastOp' = "dtor"
    /\ lastError' = "none"
    /\ ipp' = Cleanup(ipp, vendorHeap).ipp
    /\ vendorHeap' = Cleanup(ipp, vendorHeap).heap
    /\ UNCHANGED <<object, ctorArgs, lastInput, lastOutput, resetGhost, streamGhost,
                   pairVars, auxVars, ippArgs, vendorCalls>>

\* mutant: the empty block is not returned early
IPPEmptyBlock_Unchecked(input) == FALSE

\* numInputSamples == 0
IPPEmptyBlock(input) == NumInputSamples(input) = 0

\* channel offset (0 for I, 1 for Q) of the block
IPPChannel(input, offset) ==
    [k \in 1..NumInputSamples(input) |-> input[2 * (k - 1) + offset + 1]]

\* what ippsResamplePolyphaseFixed_32f writes for channel ch under structure spec
VendorResample(ch, spec) ==
    [k \in 1..CDiv(Len(ch) * spec.outRate, spec.inRate) |->
        [rolloff |-> spec.rolloff, alpha |-> spec.alpha, len |-> spec.len,
         src |-> ch, at |-> k]]

\* the interleaved output of the first actualOutLen pairs
IPPOutput(input) ==
    LET outI == VendorResample(IPPChannel(input, 0), ipp.pSpecI_)
        outQ == VendorResample(IPPChannel(input, 1), ipp.pSpecQ_)
        actualOutLen == Min(Len(outI), Len(outQ))
    IN  [k \in 1..(2 * actualOutLen) |->
            IF k % 2 = 1 THEN outI[(k + 1) \div 2] ELSE outQ[k \div 2]]

\* IQResamplerIPP::process
IPPProcessCall(input) ==
    /\ IPPLive
    /\ lastOp' = "process"
    /\ lastInput' = input
    /\ ipp' = ipp
    /\ IF OddSize(input)
       THEN /\ lastError' = "invalid_argument"
            /\ lastOutput' = <<>>
            /\ vendorCalls' = vendorCalls
       ELSE IF IPPEmptyBlock(input)
       THEN /\ lastError' = "none"
            /\ lastOutput' = <<>>
            /\ vendorCalls' = vendorCalls
       ELSE \/ /\ lastError' = "runtime_error"
               /\ lastOutput' = <<>>
               /\ vendorCalls' \in {vendorCalls + 1, vendorCalls + 2}
            \/ /\ lastError' = "none"
               /\ lastOutput' = IPPOutput(input)
               /\ vendorCalls' = vendorCalls + 2

IPPBlocks == {StreamBlock(0, n) : n \in 0..MaxPairs} \cup OddBlocks

IPPProcess ==
    \E input \in IPPBlocks :
        /\ vendorCalls + 2 <= MaxVendorCalls
        /\ IPPProcessCall(input)
        /\ UNCHANGED <<object, ctorArgs, resetGhost, streamGhost, pairVars, auxVars, ippArgs, vendorHeap>>

\* IQResamplerIPP::reset
IPPReset ==
    /\ IPPLive
    /\ lastOp' = "reset"
    /\ lastError' = "none"
    /\ ipp' = IF ipp.pSpecI_.allocated /\ ipp.pSpecQ_.allocated
              THEN [ipp EXCEPT
                      !.pSpecI_ = InitSpec(ipp.inputRate_, ipp.outputRate_,
                                           ipp.filterLen_, ResetRolloff, KaiserAlpha),
                      !.pSpecQ_ = InitSpec(ipp.inputRate_, ipp.outputRate_,
                                           ipp.filterLen_, ResetRolloff, KaiserAlpha)]
              ELSE ipp
    /\ UNCHANGED <<object, ctorArgs, lastInput, lastOutput, resetGhost, streamGhost,
                   pairVars, auxVars, ippArgs, vendorCalls, vendorHeap>>

\* before the constructor runs: the arguments are chosen
InitIPP ==
    /\ ippArgs \in IPPRates \X IPPRates \X Rolloffs \X IPPLens
    /\ ipp = <<>>
    /\ vendorCalls = 0
    /\ vendorHeap = NoBuffers
    /\ ctorArgs = <<>>
    /\ lastOp = "none"
    /\ inputRate_ = 0
    /\ outputRate_ = 0
    /\ upFactor_ = 0
    /\ downFactor_ = 0
    /\ filterLen_ = 0
    /\ filter_ = <<>>
    /\ stateI_ = <<>>
    /\ stateQ_ = <<>>
    /\ inputPos_ = 0
    /\ lastInput = <<>>
    /\ lastOutput = <<>>
    /\ lastError = "none"
    /\ InitGhost
    /\ InitNoPeer
    /\ InitNoAux

NextIPP == IPPConstruct \/ IPPProcess \/ IPPReset \/ IPPDestroy

SpecIPP == InitIPP /\ [][NextIPP]_vars

\* ================================================================== claims
CeilDiv(a, b) == (a + b - 1) \div b

HalfLen == filterLen_ \div 2

\* pairs in the last block, pairs in the last output, and floor(n*outputRate/inputRate)
LastPairsIn == Len(lastInput) \div 2

LastPairsOut == Len(lastOutput) \div 2

FullCount(n) == (n * outputRate_) \div inputRate_

\* the number of pairs one process call on a block of n pairs emits
EmittedCount(n) == Len(EmittedIndices(n, CDiv(n * outputRate_, inputRate_)))

\* C1: a process call on an odd-length block raises std::invalid_argument and
\* leaves every member, both channel histories included, as it was before the call.
C1_OddLengthRejected ==
    [][(lastOp' = "process" /\ Len(lastInput') % 2 = 1)
          => (lastError' = "invalid_argument" /\ object' = object)]_vars

C1_Witness ==
    /\ lastOp = "process"
    /\ Len(lastInput) % 2 = 1
    /\ lastError = "invalid_argument"
    /\ \E k \in 1..Len(stateI_) : stateI_[k] # 0

\* C2: every output position that a call left out, because it lies too close to
\* the end of that call's extended buffer, has been emitted once a further
\* non-empty block has been processed.
C2_DeferredSamplesEmitted == olderDeferred = {}

\* C3: a process call on a zero-length block returns a zero-length output, raises
\* no error and leaves both channel histories as they were before the call.
C3_EmptyBlock ==
    [][(lastOp' = "process" /\ lastInput' = <<>>)
          => (/\ lastOutput' = <<>>
              /\ lastError' = "none"
              /\ stateI_' = stateI_
              /\ stateQ_' = stateQ_)]_vars

C3_Witness ==
    /\ lastOp = "process"
    /\ lastInput = <<>>
    /\ lastOutput = <<>>
    /\ lastError = "none"
    /\ \E k \in 1..Len(stateI_) : stateI_[k] # 0
    /\ \E k \in 1..Len(stateQ_) : stateQ_[k] # 0

\* C4: after reset(); a = process(X); reset(); b = process(X), b equals a element
\* for element.
C4_ResetRepeatable == resetStage = 4 => lastOutput = refOutput

C4_Witness ==
    /\ resetStage = 4
    /\ lastInput = refInput
    /\ Len(lastOutput) >= 4
    /\ \E k \in 1..Len(lastOutput) : lastOutput[k] # 0

\* C5: after reset() both channel histories are all-zero with length tapCount, and
\* every member equals that of a freshly constructed instance with the same
\* parameters.
C5_ResetIsFresh ==
    lastOp = "reset" =>
        LET r == IQResamplerCPP(ctorArgs[1], ctorArgs[2], ctorArgs[3])
        IN  /\ Len(stateI_) = ctorArgs[3]
            /\ Len(stateQ_) = ctorArgs[3]
            /\ \A k \in 1..ctorArgs[3] : stateI_[k] = 0 /\ stateQ_[k] = 0
            /\ object = <<r.inputRate_, r.outputRate_, r.upFactor_, r.downFactor_,
                          r.filterLen_, r.filter_, r.stateI_, r.stateQ_, r.inputPos_>>

\* the reset follows a process call on a block with a non-zero I and Q sample
C5_Witness ==
    /\ lastOp = "reset"
    /\ resetStage = 3
    /\ \E k \in 1..Len(refInput) : k % 2 = 1 /\ refInput[k] # 0
    /\ \E k \in 1..Len(refInput) : k % 2 = 0 /\ refInput[k] # 0

\* C6: for positive rates the constructor leaves upFactor_ = outputRate/g and
\* downFactor_ = inputRate/g, g the greatest common divisor of the rates, so the
\* factors are coprime and upFactor_ * inputRate = downFactor_ * outputRate.
CommonDivisors(a, b) == {d \in 1..Min(a, b) : a % d = 0 /\ b % d = 0}

C6_RatioReduced ==
    (lastOp # "none" /\ ctorArgs[1] > 0 /\ ctorArgs[2] > 0) =>
        /\ upFactor_ > 0
        /\ downFactor_ > 0
        /\ \E g \in CommonDivisors(ctorArgs[1], ctorArgs[2]) :
              /\ \A d \in CommonDivisors(ctorArgs[1], ctorArgs[2]) : d <= g
              /\ upFactor_ * g = ctorArgs[2]
              /\ downFactor_ * g = ctorArgs[1]
        /\ CommonDivisors(upFactor_, downFactor_) = {1}
        /\ upFactor_ * ctorArgs[1] = downFactor_ * ctorArgs[2]

C6_Witness ==
    /\ lastOp = "ctor"
    /\ ctorArgs[1] = 6
    /\ ctorArgs[2] = 4
    /\ upFactor_ = 2
    /\ downFactor_ = 3

\* C7: a constructor call with a non-positive inputRate or outputRate fails with an
\* invalid-argument error, so no instance holding a non-positive rate exists or is
\* used by process.
C7_NonPositiveRateRejected ==
    (lastOp # "none" /\ (ctorArgs[1] <= 0 \/ ctorArgs[2] <= 0)) =>
        (lastOp = "ctor" /\ lastError = "invalid_argument")

ConstantBlock(input, cI, cQ) ==
    \A k \in 1..Len(input) : input[k] = IF k % 2 = 1 THEN cI ELSE cQ

\* C11: a block whose I samples all equal cI and whose Q samples all equal cQ gives
\* an output whose I values all equal cI and whose Q values all equal cQ, also on
\* the first call after construction or reset, when the history is all zeros.
C11_DCPreserved ==
    (lastOp = "process" /\ lastError = "none") =>
        \A cI \in Samples, cQ \in Samples :
            ConstantBlock(lastInput, cI, cQ) =>
                \A k \in 1..Len(lastOutput) :
                    lastOutput[k] = (IF k % 2 = 1 THEN cI ELSE cQ) * RatioDen

\* the first call after a reset, on a constant block with cI = 1 and cQ = 0, with an
\* output position that falls between two samples
C11_Witness ==
    /\ lastOp = "process"
    /\ lastError = "none"
    /\ resetStage = 2
    /\ LastPairsIn >= 2
    /\ ConstantBlock(lastInput, 1, 0)
    /\ Len(lastOutput) >= 4
    /\ RatioNum % RatioDen # 0

\* C12: two instances share no mutable state: a process or reset call on one
\* instance changes no member of the other, and what an instance holds when the
\* caller returns to it is what it held when the caller left it.
C12_InstancesIndependent ==
    [][IF active' = active
       THEN peer' = peer
       ELSE /\ <<peer'.stateI_, peer'.stateQ_, peer'.inputPos_, peer'.lastOutput>>
                  = <<stateI_, stateQ_, inputPos_, lastOutput>>
            /\ <<peer'.inputRate_, peer'.outputRate_, peer'.upFactor_,
                 peer'.downFactor_, peer'.filterLen_>>
                  = <<inputRate_, outputRate_, upFactor_, downFactor_, filterLen_>>
            /\ <<stateI_', stateQ_', inputPos_', lastOutput'>>
                  = <<peer.stateI_, peer.stateQ_, peer.inputPos_, peer.lastOutput>>
            /\ <<inputRate_', outputRate_', upFactor_', downFactor_', filterLen_'>>
                  = <<peer.inputRate_, peer.outputRate_, peer.upFactor_,
                      peer.downFactor_, peer.filterLen_>>]_vars

\* both instances have processed a block since the caller last reset them, and
\* their histories differ
C12_Witness ==
    /\ active = "B"
    /\ lastOp = "process"
    /\ peer.lastOp = "process"
    /\ \E k \in 1..Len(stateI_) : stateI_[k] # 0
    /\ \E k \in 1..Len(peer.stateI_) : peer.stateI_[k] # 0
    /\ stateI_ # peer.stateI_
    /\ Len(lastOutput) > 0
    /\ Len(peer.lastOutput) > 0

\* C16: two instances with the same inputRate, outputRate and tapCount return the
\* same output for the same block, whatever their histories were before the call.
C16_OutputIgnoresHistory ==
    (/\ ctorArgs = peer.ctorArgs
     /\ lastOp = "process" /\ lastError = "none"
     /\ peer.lastOp = "process" /\ peer.lastError = "none"
     /\ lastInput = peer.lastInput) => lastOutput = peer.lastOutput

\* the two calls started from different histories and returned some non-zero value
C16_Witness ==
    /\ ctorArgs = peer.ctorArgs
    /\ lastOp = "process" /\ lastError = "none"
    /\ peer.lastOp = "process" /\ peer.lastError = "none"
    /\ lastInput = peer.lastInput
    /\ prior # peer.prior
    /\ Len(lastOutput) >= 2
    /\ \E k \in 1..Len(lastOutput) : lastOutput[k] # 0

\* C13: the accelerated backend's process raises std::invalid_argument on an
\* odd-length block and returns an empty output for an empty block, in both cases
\* without invoking the vendor resampling primitive and without changing a member.
C13_IPPRejectsBeforeVendor ==
    [][(IPPLive' /\ lastOp' = "process") =>
          /\ Len(lastInput') % 2 = 1 =>
                /\ lastError' = "invalid_argument"
                /\ vendorCalls' = vendorCalls
                /\ ipp' = ipp
          /\ lastInput' = <<>> =>
                /\ lastError' = "none"
                /\ lastOutput' = <<>>
                /\ vendorCalls' = vendorCalls
                /\ ipp' = ipp]_vars

\* an odd-length block handed to an instance that has resampled a block before
C13_Witness ==
    /\ ipp # <<>>
    /\ lastOp = "process"
    /\ Len(lastInput) % 2 = 1
    /\ lastError = "invalid_argument"
    /\ vendorCalls > 0

\* C14: for any rolloff and filter length, reset() leaves the accelerated backend
\* in its as-constructed configuration, so that a block processed after reset()
\* gives the output it gave on the freshly constructed instance.
C14_IPPResetRestores ==
    (ipp # <<>> /\ IPPLive /\ lastOp = "reset") =>
        ipp = IQResamplerIPP(ippArgs[1], ippArgs[2], ippArgs[3], ippArgs[4])

\* C17: a process call on a block of n pairs, 0 < n < tapCount, overwrites only
\* the trailing n slots of each history with the block's samples in order, and the
\* leading tapCount - n slots keep their values.
C17_TrailingSlotsRefreshed ==
    [][(/\ lastOp' = "process"
        /\ lastError' = "none"
        /\ 0 < Len(lastInput') \div 2
        /\ Len(lastInput') \div 2 < filterLen_) =>
          LET n    == Len(lastInput') \div 2
              kept == filterLen_ - n
          IN  \A k \in 1..filterLen_ :
                 /\ stateI_'[k] = IF k <= kept THEN stateI_[k]
                                  ELSE lastInput'[2 * (k - kept) - 1]
                 /\ stateQ_'[k] = IF k <= kept THEN stateQ_[k]
                                  ELSE lastInput'[2 * (k - kept)]]_vars

\* the position of output index i in the claims' terms, tapCount + i*inputRate /
\* outputRate, as a numerator over outputRate_ (positive rates)
ClaimPos(i) == filterLen_ * outputRate_ + i * inputRate_

\* C18: output index i of 0 .. floor(n*outputRate/inputRate) - 1 is emitted exactly
\* when its position does not exceed extendedLength - tapCount/2 (a position equal
\* to it is emitted), so the emitted indices are those up to the first that exceeds
\* it.
C18_EmittedUpToThreshold ==
    (lastOp = "process" /\ lastError = "none") =>
        LastPairsOut =
            Cardinality({i \in 0..(FullCount(LastPairsIn) - 1) :
                            ClaimPos(i) <= (filterLen_ + LastPairsIn - HalfLen) * outputRate_})

\* the extended sequence of a channel (offset 0 for I, 1 for Q) before the call that
\* took block input: element j, 0-based
ClaimSample(state, input, offset, j) ==
    IF j < Len(state) THEN state[j + 1] ELSE input[2 * (j - Len(state)) + offset + 1]

\* C19 as stated: every emitted pair i is sample[idx]*(1-frac) + sample[idx+1]*frac
\* of the extended sequence at pos = tapCount + i*inputRate/outputRate, idx =
\* floor(pos), frac = pos - idx, for I and for Q, at output offsets 2i and 2i+1
\* (with frac = 0 the term of sample[idx+1] vanishes and the sample need not exist).
C19_AlwaysInterpolated ==
    [][(lastOp' = "process" /\ lastError' = "none") =>
          \A i \in 0..(Len(lastOutput') \div 2 - 1) :
              LET idx  == ClaimPos(i) \div outputRate_
                  frac == ClaimPos(i) % outputRate_
              IN  IF frac = 0
                  THEN /\ lastOutput'[2 * i + 1] =
                             ClaimSample(stateI_, lastInput', 0, idx) * outputRate_
                       /\ lastOutput'[2 * i + 2] =
                             ClaimSample(stateQ_, lastInput', 1, idx) * outputRate_
                  ELSE /\ idx + 1 < filterLen_ + Len(lastInput') \div 2
                       /\ lastOutput'[2 * i + 1] =
                             ClaimSample(stateI_, lastInput', 0, idx) * (outputRate_ - frac)
                             + ClaimSample(stateI_, lastInput', 0, idx + 1) * frac
                       /\ lastOutput'[2 * i + 2] =
                             ClaimSample(stateQ_, lastInput', 1, idx) * (outputRate_ - frac)
                             + ClaimSample(stateQ_, lastInput', 1, idx + 1) * frac]_vars

\* C19 amended: every emitted pair i is that linear interpolation when idx+1 is an
\* index of the extended sequence, and the raw sample[idx] when it is not.
C19_InterpolatedOrRaw ==
    [][(lastOp' = "process" /\ lastError' = "none") =>
          \A i \in 0..(Len(lastOutput') \div 2 - 1) :
              LET idx  == ClaimPos(i) \div outputRate_
                  frac == ClaimPos(i) % outputRate_
              IN  IF idx + 1 < filterLen_ + Len(lastInput') \div 2
                  THEN /\ lastOutput'[2 * i + 1] =
                             ClaimSample(stateI_, lastInput', 0, idx) * (outputRate_ - frac)
                             + ClaimSample(stateI_, lastInput', 0, idx + 1) * frac
                       /\ lastOutput'[2 * i + 2] =
                             ClaimSample(stateQ_, lastInput', 1, idx) * (outputRate_ - frac)
                             + ClaimSample(stateQ_, lastInput', 1, idx + 1) * frac
                  ELSE /\ lastOutput'[2 * i + 1] =
                             ClaimSample(stateI_, lastInput', 0, idx) * outputRate_
                       /\ lastOutput'[2 * i + 2] =
                             ClaimSample(stateQ_, lastInput', 1, idx) * outputRate_]_vars

\* a call whose output holds a value interpolated between two different samples
\* and, as its last pair, a raw sample at a position between two indices
C19_Witness ==
    /\ lastOp = "process"
    /\ lastError = "none"
    /\ LastPairsOut >= 2
    /\ \E i \in 0..(LastPairsOut - 1) :
          /\ ClaimPos(i) % outputRate_ # 0
          /\ ClaimPos(i) \div outputRate_ + 1 < filterLen_ + LastPairsIn
          /\ lastOutput[2 * i + 1] % outputRate_ # 0
    /\ \E i \in 0..(LastPairsOut - 1) :
          /\ ClaimPos(i) % outputRate_ # 0
          /\ ClaimPos(i) \div outputRate_ + 1 = filterLen_ + LastPairsIn
          /\ lastOutput[2 * i + 1] # 0

\* C20: after a process call on a block of n >= tapCount pairs each history holds,
\* in order, the last tapCount samples of its channel of the block.
C20_HistoryIsBlockTail ==
    (lastOp = "process" /\ lastError = "none" /\ LastPairsIn >= filterLen_) =>
        \A k \in 1..filterLen_ :
            /\ stateI_[k] = lastInput[2 * (LastPairsIn - filterLen_ + k) - 1]
            /\ stateQ_[k] = lastInput[2 * (LastPairsIn - filterLen_ + k)]

\* a block longer than the history whose last samples differ from its first ones
C20_Witness ==
    /\ lastOp = "process"
    /\ lastError = "none"
    /\ LastPairsIn > filterLen_
    /\ lastInput[1] # lastInput[2 * (LastPairsIn - filterLen_) + 1]
    /\ lastInput[2] # lastInput[2 * (LastPairsIn - filterLen_) + 2]
    /\ stateI_[1] # 0


\* C21: a process call on an even-length block of n pairs raises no error, returns
\* an empty output exactly when n <= floor(tapCount/2) or n*outputRate < inputRate
\* and at least one pair otherwise, and in both cases leaves the last
\* min(tapCount, n) samples of each channel of the block in the history.
C21_EmptyOutputExactlyWhen ==
    (lastOp = "process" /\ Len(lastInput) % 2 = 0) =>
        /\ lastError = "none"
        /\ (LastPairsOut = 0) <=>
              (LastPairsIn <= HalfLen \/ LastPairsIn * outputRate_ < inputRate_)
        /\ \A k \in 1..Min(filterLen_, LastPairsIn) :
              LET p == LastPairsIn - Min(filterLen_, LastPairsIn) + k
              IN  /\ stateI_[k] = lastInput[2 * p - 1]
                  /\ stateQ_[k] = lastInput[2 * p]

\* a block long enough for the rate ratio but not for the filter margin: nothing
\* is returned and the history holds the block's samples
C21_Witness ==
    /\ lastOp = "process"
    /\ lastError = "none"
    /\ LastPairsIn > 0
    /\ LastPairsIn * outputRate_ >= inputRate_
    /\ LastPairsIn = HalfLen
    /\ lastOutput = <<>>
    /\ stateI_[1] = lastInput[2 * (LastPairsIn - Min(filterLen_, LastPairsIn)) + 1]
    /\ stateI_[1] # 0

\* the Initialized condition of the claims: both channel histories all-zero
HistoriesZero == stateI_ = Zeros(Len(stateI_)) /\ stateQ_ = Zeros(Len(stateQ_))

\* C22 as stated: no process call takes an instance whose histories hold a
\* non-zero sample to all-zero histories.
C22_ZeroedOnlyByReset ==
    [][(lastOp' = "process" /\ ~HistoriesZero) => ~HistoriesZero']_vars

\* C22, amended: histories that hold a non-zero sample become all-zero only by
\* reset() or by a process call on a block of n >= 1 pairs whose last
\* min(tapCount, n) pairs are zero in both channels while every history slot past
\* the n-th was zero already; every other process call leaves a non-zero sample.
C22_ZeroedByResetOrZeroBlock ==
    [][(~HistoriesZero /\ lastOp' # "reset") =>
          (HistoriesZero' <=>
              LET n         == Len(lastInput') \div 2
                  stateSize == Min(filterLen_, n)
              IN  /\ lastOp' = "process"
                  /\ lastError' = "none"
                  /\ n >= 1
                  /\ \A k \in (2 * (n - stateSize) + 1)..(2 * n) : lastInput'[k] = 0
                  /\ \A k \in (stateSize + 1)..filterLen_ :
                        stateI_[k] = 0 /\ stateQ_[k] = 0)]_vars

\* a one-slot history that held pair 2 of the stream, non-zero in both channels,
\* is all-zero after a process call on the block that consists of pair 3
C22_Witness ==
    /\ lastOp = "process"
    /\ lastError = "none"
    /\ filterLen_ = 1
    /\ lastBase = 2
    /\ SignalI(lastBase) # 0
    /\ SignalQ(lastBase) # 0
    /\ lastInput = <<0, 0>>
    /\ HistoriesZero

\* C23: a process or reset call changes none of inputRate_, outputRate_,
\* upFactor_, downFactor_, filterLen_ and filter_, and leaves inputPos_ at the
\* value it had: the two channel histories are the only members that change.
C23_OnlyHistoriesChange ==
    [][lastOp' \in {"process", "reset"} =>
          /\ UNCHANGED <<inputRate_, outputRate_, upFactor_, downFactor_, filterLen_,
                         filter_, inputPos_>>
          /\ <<inputRate_', outputRate_', filterLen_'>> = ctorArgs]_vars

\* a process call after a reset that followed earlier calls: it returned samples
\* and filled the histories, and the table is the one the constructor designed
C23_Witness ==
    /\ lastOp = "process"
    /\ resetStage = 2
    /\ lastOutput # <<>>
    /\ ~HistoriesZero
    /\ Len(filter_) > 1
    /\ filter_ = generateFilter(ctorArgs[3], Max(upFactor_, downFactor_))

\* both instances of SpecTwin have made the same calls, at least one
TwinInSync ==
    /\ twin.pending = <<>>
    /\ lastOp \in {"process", "reset"}
    /\ peer.lastOp = lastOp

\* C24: process never applies the coefficient table: two instances that differ
\* only in the values of filter_ return the same output and hold the same
\* histories after the same sequence of calls.
C24_TableNotApplied ==
    (twin.mode = "table" /\ TwinInSync) =>
        /\ lastOutput = peer.lastOutput
        /\ stateI_ = peer.stateI_
        /\ stateQ_ = peer.stateQ_
        /\ lastError = peer.lastError

\* two instances with different tables after the same process call, which
\* returned samples and filled the histories
C24_Witness ==
    /\ twin.mode = "table"
    /\ TwinInSync
    /\ lastOp = "process"
    /\ filter_ # peer.filter_
    /\ Len(filter_) = Len(peer.filter_)
    /\ <<inputRate_, outputRate_, upFactor_, downFactor_, filterLen_>>
          = <<peer.inputRate_, peer.outputRate_, peer.upFactor_, peer.downFactor_,
              peer.filterLen_>>
    /\ lastOutput # <<>>
    /\ ~HistoriesZero

\* C25: the channels do not influence each other: when only the Q samples of the
\* blocks differ, the I values of the output and the I history are the same, and
\* when only the I samples differ, the Q values and the Q history are the same.
C25_ChannelsIndependent ==
    TwinInSync =>
        /\ twin.mode \in {"altQ", "altI"} => Len(lastOutput) = Len(peer.lastOutput)
        /\ twin.mode = "altQ" =>
              /\ \A k \in 1..Len(lastOutput) :
                    k % 2 = 1 => lastOutput[k] = peer.lastOutput[k]
              /\ stateI_ = peer.stateI_
        /\ twin.mode = "altI" =>
              /\ \A k \in 1..Len(lastOutput) :
                    k % 2 = 0 => lastOutput[k] = peer.lastOutput[k]
              /\ stateQ_ = peer.stateQ_

\* blocks that differ in Q only: the Q values of the outputs and the Q histories
\* differ, the I values are non-zero and the same
C25_Witness ==
    /\ twin.mode = "altQ"
    /\ TwinInSync
    /\ lastOp = "process"
    /\ lastOutput # <<>>
    /\ \A k \in 1..Len(lastOutput) :
          k % 2 = 0 => lastOutput[k] # peer.lastOutput[k]
    /\ lastOutput[1] # 0
    /\ lastOutput[1] = peer.lastOutput[1]
    /\ stateQ_ # peer.stateQ_
    /\ stateI_ = peer.stateI_

\* the denominator of the values of the parked instance's last output
PeerDen == ToFloat(Abs(peer.outputRate_))

\* C29: the results depend on the reduced ratio only: an instance constructed with
\* (inputRate, outputRate) and one constructed with (k*inputRate, k*outputRate),
\* k >= 1, with the same filterTaps, return the same output and hold the same
\* histories after the same sequence of calls.
C29_ScaledRatesAgree ==
    (twin.mode = "scaled" /\ TwinInSync) =>
        /\ Len(lastOutput) = Len(peer.lastOutput)
        /\ \A k \in 1..Len(lastOutput) :
              lastOutput[k] * PeerDen = peer.lastOutput[k] * RatioDen
        /\ stateI_ = peer.stateI_
        /\ stateQ_ = peer.stateQ_

\* the two instances agree whenever all four rates are floats (below FloatExact)
ExactRatesAgree ==
    (Max(inputRate_, peer.inputRate_) < FloatExact
        /\ Max(outputRate_, peer.outputRate_) < FloatExact) => C29_ScaledRatesAgree

\* C26 as stated: the output count is floor(n*outputRate/inputRate) for every pair
\* count n and all positive rates that are ints.
C26_CountExact ==
    calc # <<>> => calc.count = (calc.n * outputRate_) \div inputRate_

\* C26, amended: the product n*outputRate never leaves long long, and the output
\* count is floor(n*outputRate/inputRate) whenever that quotient is an int.
C26_CountExactWhenInt ==
    calc # <<>> =>
        /\ calc.product = calc.n * outputRate_
        /\ (calc.n * outputRate_) \div inputRate_ <= IntMax =>
              calc.count = (calc.n * outputRate_) \div inputRate_

\* a product that is no int, with a quotient that is one
C26_Witness ==
    /\ calc # <<>>
    /\ calc.n * outputRate_ > IntMax
    /\ calc.count = (calc.n * outputRate_) \div inputRate_
    /\ calc.count > 1
    /\ calc.count < calc.n

\* C28: in every process call on a valid block of n pairs, every index read from
\* the extended sequences lies in 0 .. extendedLength-1, idx + 1 included where
\* it is read, every index read from the input lies in 0 .. 2n-1, and every
\* history index written lies in 0 .. tapCount-1.
C28_IndicesInRange ==
    calc # <<>> =>
        /\ \A j \in calc.extendedReads : 0 <= j /\ j <= ExtendedSize(calc.n) - 1
        /\ \A j \in calc.inputReads : 0 <= j /\ j <= 2 * calc.n - 1
        /\ \A j \in calc.historyWrites : 0 <= j /\ j <= filterLen_ - 1

\* the indices are in range for every block whose last offset 2n-1 is an int
IntBlockIndicesInRange == (calc # <<>> /\ 2 * calc.n - 1 <= IntMax) => C28_IndicesInRange

\* both histories after process(first) and then process(second), one after the
\* other, on an instance whose histories are race.start
Sequential(first, second) ==
    <<UpdatedState(UpdatedState(race.start[1], first, 0), second, 0),
      UpdatedState(UpdatedState(race.start[2], first, 1), second, 1)>>

RaceDone == race.pc = <<"done", "done">>

\* C27: process is not safe against a second call on the same instance: when two
\* unsynchronised calls have both returned, every history slot holds what one of
\* the two sequential orders leaves in that slot, and a call that ran alone has
\* left what process leaves; the histories as a whole need not be those of either
\* order (C27_Witness).
C27_SlotsFromEitherOrder ==
    /\ RaceDone =>
          LET ab == Sequential(race.input[1], race.input[2])
              ba == Sequential(race.input[2], race.input[1])
          IN  \A k \in 1..filterLen_ :
                  /\ stateI_[k] \in {ab[1][k], ba[1][k]}
                  /\ stateQ_[k] \in {ab[2][k], ba[2][k]}
    /\ \A t \in Threads :
          (race.pc[t] = "done" /\ race.pc[3 - t] = "idle") =>
              /\ stateI_ = UpdatedState(race.start[1], race.input[t], 0)
              /\ stateQ_ = UpdatedState(race.start[2], race.input[t], 1)
              /\ lastOutput = race.output[t]

\* both calls have returned and the histories are those of neither order
C27_Witness ==
    /\ RaceDone
    /\ <<stateI_, stateQ_>> # Sequential(race.input[1], race.input[2])
    /\ <<stateI_, stateQ_>> # Sequential(race.input[2], race.input[1])

\* C30: when the accelerated backend's constructor throws, every specification
\* buffer it had allocated has been freed exactly once and both pointers are null;
\* cleanup() leaves both pointers null, so that after the destructor too each
\* buffer has been freed once, and no buffer is ever freed twice.
C30_BuffersFreedOnce ==
    /\ vendorHeap.freeI <= vendorHeap.mallocI
    /\ vendorHeap.freeQ <= vendorHeap.mallocQ
    /\ (lastOp = "ctor" /\ lastError = "runtime_error") =>
          /\ vendorHeap.freeI = vendorHeap.mallocI
          /\ vendorHeap.freeQ = vendorHeap.mallocQ
          /\ ipp.pSpecI_ = NullSpec
          /\ ipp.pSpecQ_ = NullSpec
    /\ IPPLive =>
          /\ <<vendorHeap.mallocI, vendorHeap.mallocQ>> = <<1, 1>>
          /\ <<vendorHeap.freeI, vendorHeap.freeQ>> = <<0, 0>>
          /\ ipp.pSpecI_.allocated
          /\ ipp.pSpecQ_.allocated
    /\ lastOp = "dtor" =>
          /\ vendorHeap = [mallocI |-> 1, mallocQ |-> 1, freeI |-> 1, freeQ |-> 1]
          /\ ipp.pSpecI_ = NullSpec
          /\ ipp.pSpecQ_ = NullSpec

\* the constructor threw with the I buffer allocated and the Q buffer not: the
\* I buffer has been freed
C30_Witness ==
    /\ lastOp = "ctor"
    /\ lastError = "runtime_error"
    /\ vendorHeap = [mallocI |-> 1, mallocQ |-> 0, freeI |-> 1, freeQ |-> 0]
    /\ ipp.pSpecI_ = NullSpec
=============================================================================
